---------------------------- MODULE Spec2Model ----------------------------
(***************************************************************************)
(* SLIP link layer (src/slip.py): CamadaEnlace routes datagrams to one     *)
(* Enlace per next hop; each Enlace frames outgoing datagrams (enviar) and *)
(* reassembles incoming raw bytes into datagrams (__raw_recv).             *)
(*                                                                         *)
(* Bytes are integers 0..255, byte strings are sequences of bytes.         *)
(***************************************************************************)
EXTENDS Integers, Sequences, FiniteSets

\* ------------------------------------------------------------------------
\* Protocol constants (Enlace.enviar / Enlace.__raw_recv)
\* ------------------------------------------------------------------------
END == 192
ESC == 219
ESC_END == <<219, 220>>
ESC_ESC == <<219, 221>>

\* ------------------------------------------------------------------------
\* Bounds and input sets of the model
\* ------------------------------------------------------------------------
\* longest datagram handed to a single Enlace.enviar in SpecLoop
MaxLen == 3
\* most datagrams sent back to back in SpecLoop
MaxFrames == 3
\* longest frame stream put on the line in SpecStream
MaxStream == 6
\* longest arbitrary (possibly malformed) byte stream in SpecStream
MaxAny == 3
\* most operations performed on the CamadaEnlace in Spec
MaxOps == 3

\* bytes a datagram is built from: 'A', the two special bytes and the two
\* second bytes of the escape sequences
DataByte == {65, 192, 219, 220, 221}
\* bytes seen on the line: the above and 'B', 'C'
LineByte == {65, 66, 67, 192, 219, 220, 221}

\* all sequences over S of length at most n
SeqsUpTo(S, n) == UNION {[1..k -> S] : k \in 0..n}

\* datagrams sent several in a row (SpecLoop) or routed (Spec)
Samples == {<<>>, <<65>>, <<192>>, <<219>>, <<192, 219>>}

\* ------------------------------------------------------------------------
\* The objects
\* ------------------------------------------------------------------------
\* keys of linhas_seriais given to CamadaEnlace.__init__
Addrs == {"a1", "a2"}
\* a next hop that is not a key of self.enlaces
Unknown == "a9"
\* an Enlace built directly on its own serial line (the far end of a line)
Peer == "peer"
Enlaces == Addrs \cup {Peer}

\* values of a callback slot
None == "None"
NoAttr == "NoAttr"
MergedCallback == "_callback"
UserCallbacks == {"cb1", "cb2"}

\* an Enlace on which __raw_recv never ran has no attribute buffer
NoBuffer == <<-1>>

VARIABLES
    callback,         \* CamadaEnlace.callback
    registered,       \* history: the arguments of CamadaEnlace.registrar_recebedor
    enlace_callback,  \* Enlace.callback of each Enlace (NoAttr: never registered)
    buffer,           \* Enlace.buffer of each Enlace (NoBuffer: attribute absent)
    line,             \* per Enlace: the byte strings passed to linha_serial.enviar
    calls,            \* history: the runs of user callbacks, in order
    outcome,          \* how the last operation ended
    sent,             \* history: the (datagrama, next_hop) of every enviar call
    recvd,            \* history: per Enlace, all bytes passed to __raw_recv
    chunks,           \* history: per Enlace, the sizes of the chunks passed to __raw_recv
    tosend,           \* datagrams the sending application has still to send
    pending,          \* bytes on the line, not yet delivered to the Peer
    ops,              \* number of operations performed on the CamadaEnlace
    pc, dados, tmp, quadro, resto   \* threads running __raw_recv (SpecThreads)

vars == <<callback, registered, enlace_callback, buffer, line, calls, outcome, sent, recvd,
          chunks, tosend, pending, ops, pc, dados, tmp, quadro, resto>>

Threads == {1, 2}
thvars == <<pc, dados, tmp, quadro, resto>>

\* ------------------------------------------------------------------------
\* Byte-string helpers (Python bytes methods)
\* ------------------------------------------------------------------------
IsPrefix(p, s) == Len(p) <= Len(s) /\ SubSeq(s, 1, Len(p)) = p

\* bytes.replace(old, new): left to right, non-overlapping occurrences
RECURSIVE Replace(_, _, _)
Replace(s, old, new) ==
    IF Len(s) < Len(old) THEN s
    ELSE IF IsPrefix(old, s)
         THEN new \o Replace(SubSeq(s, Len(old) + 1, Len(s)), old, new)
         ELSE <<Head(s)>> \o Replace(Tail(s), old, new)

\* END in self.buffer
HasEnd(s) == \E i \in 1..Len(s) : s[i] = END

\* index of the first END of s (s contains one)
FirstEnd(s) == CHOOSE i \in 1..Len(s) : s[i] = END /\ \A j \in 1..(i - 1) : s[j] # END

\* self.buffer.partition(END): the bytes before the first END and those after it
\* (no END in s: the whole of s and an empty rest, as bytes.partition does)
Partition(s) ==
    IF HasEnd(s)
    THEN [quadro |-> SubSeq(s, 1, FirstEnd(s) - 1),
          resto  |-> SubSeq(s, FirstEnd(s) + 1, Len(s))]
    ELSE [quadro |-> s, resto |-> <<>>]

\* ------------------------------------------------------------------------
\* Enlace.enviar
\* ------------------------------------------------------------------------
\* a variant that substitutes END before ESC
Escape_EndFirst(datagrama) ==
    Replace(Replace(datagrama, <<END>>, ESC_END), <<ESC>>, ESC_ESC)

\* datagrama.replace(ESC, ESC_ESC).replace(END, ESC_END)
Escape(datagrama) ==
    Replace(Replace(datagrama, <<ESC>>, ESC_ESC), <<END>>, ESC_END)

\* quadro = END + datagrama + END
Quadro(datagrama) == <<END>> \o Escape(datagrama) \o <<END>>

\* ------------------------------------------------------------------------
\* Enlace.__raw_recv
\* ------------------------------------------------------------------------
\* a variant that undoes ESC_ESC before ESC_END
Unescape_EscFirst(q) ==
    Replace(Replace(q, ESC_ESC, <<ESC>>), ESC_END, <<END>>)

\* quadro.replace(ESC_END, END).replace(ESC_ESC, ESC)
Unescape(q) ==
    Replace(Replace(q, ESC_END, <<END>>), ESC_ESC, <<ESC>>)

\* the user function that self.callback(quadro) ends up running on Enlace l:
\* NoAttr when the Enlace has no attribute callback (AttributeError), None when
\* it is CamadaEnlace._callback and CamadaEnlace.callback is None
Target(l) ==
    IF enlace_callback[l] = MergedCallback THEN callback ELSE enlace_callback[l]

RECURSIVE Drain(_, _, _, _, _)

\* a variant without the try/except: the exception leaves __raw_recv
OnException_Propagates(buf, l, fn, fails, acc) ==
    [buffer |-> buf, calls |-> acc, exc |-> TRUE]

\* except Exception: traceback.print_exc(), and the while loop goes on
OnException(buf, l, fn, fails, acc) == Drain(buf, l, fn, fails, acc)

\* a variant that stops at the first complete frame instead of looping
Drain_Once(buf, l, fn, fails, acc) ==
    IF ~HasEnd(buf) THEN [buffer |-> buf, calls |-> acc, exc |-> FALSE]
    ELSE LET p == Partition(buf) IN
         IF p.quadro = <<>> \/ fn \in {None, NoAttr}
         THEN [buffer |-> p.resto, calls |-> acc, exc |-> FALSE]
         ELSE [buffer |-> p.resto,
               calls  |-> Append(acc, [enlace |-> l, fn |-> fn,
                                       datagrama |-> Unescape(p.quadro),
                                       raised |-> (Len(acc) + 1) \in fails]),
               exc |-> FALSE]

\* a variant that hands empty frames to the callback as empty datagrams
Drain_NoSkip(buf, l, fn, fails, acc) ==
    IF ~HasEnd(buf) THEN [buffer |-> buf, calls |-> acc, exc |-> FALSE]
    ELSE LET p == Partition(buf) IN
         IF fn \in {None, NoAttr} THEN Drain(p.resto, l, fn, fails, acc)
         ELSE Drain(p.resto, l, fn, fails,
                    Append(acc, [enlace |-> l, fn |-> fn,
                                 datagrama |-> Unescape(p.quadro),
                                 raised |-> (Len(acc) + 1) \in fails]))

\* the while loop of __raw_recv on buffer buf; fn is the function the callback
\* runs, fails the set of k such that the k-th run of fn in this call raises
\* an Exception, acc the runs made so far in this call
Drain(buf, l, fn, fails, acc) ==
    IF ~HasEnd(buf) THEN [buffer |-> buf, calls |-> acc, exc |-> FALSE]
    ELSE LET p == Partition(buf) IN
         IF p.quadro = <<>> THEN Drain(p.resto, l, fn, fails, acc)
         ELSE IF fn = NoAttr THEN OnException(p.resto, l, fn, fails, acc)
         ELSE IF fn = None THEN Drain(p.resto, l, fn, fails, acc)
         ELSE LET raised == (Len(acc) + 1) \in fails
                  acc2 == Append(acc, [enlace |-> l, fn |-> fn,
                                       datagrama |-> Unescape(p.quadro),
                                       raised |-> raised])
              IN IF raised THEN OnException(p.resto, l, fn, fails, acc2)
                 ELSE Drain(p.resto, l, fn, fails, acc2)

\* a variant that overwrites the buffer with the new chunk
Accumulate_Overwrite(buf, chunk) == chunk

\* if not hasattr(self, "buffer"): self.buffer = b""; self.buffer += dados
Accumulate(buf, chunk) == (IF buf = NoBuffer THEN <<>> ELSE buf) \o chunk

\* a variant that keeps the bytes for later when no receiver is registered
RawRecvResult_KeepWhenNone(buf, l, fn, chunk, fails) ==
    IF fn = None
    THEN [buffer |-> Accumulate(buf, chunk), calls |-> <<>>, exc |-> FALSE]
    ELSE Drain(Accumulate(buf, chunk), l, fn, fails, <<>>)

\* the whole of __raw_recv(dados) run on an Enlace whose buffer is buf
RawRecvResult(buf, l, fn, chunk, fails) ==
    Drain(Accumulate(buf, chunk), l, fn, fails, <<>>)

\* number of non-empty frames completed by chunk: the most callback runs
NumFrames(buf, l, chunk) ==
    Len(RawRecvResult(buf, l, "cb1", chunk, {}).calls)

\* ------------------------------------------------------------------------
\* Initial state: CamadaEnlace({a1: linha1, a2: linha2}) and a bare
\* Enlace(linha) at the far end of a line
\* ------------------------------------------------------------------------
InitObjects ==
    /\ callback = None
    /\ registered = <<>>
    /\ enlace_callback = [l \in Enlaces |-> IF l \in Addrs THEN MergedCallback ELSE NoAttr]
    /\ buffer = [l \in Enlaces |-> NoBuffer]
    /\ line = [l \in Enlaces |-> <<>>]
    /\ calls = <<>>
    /\ outcome = "ok"
    /\ sent = <<>>
    /\ recvd = [l \in Enlaces |-> <<>>]
    /\ chunks = [l \in Enlaces |-> <<>>]
    /\ ops = 0
    /\ pc = [t \in Threads |-> "idle"]
    /\ dados = [t \in Threads |-> <<>>]
    /\ tmp = [t \in Threads |-> <<>>]
    /\ quadro = [t \in Threads |-> <<>>]
    /\ resto = [t \in Threads |-> <<>>]

Init ==
    /\ InitObjects
    /\ tosend = <<>>
    /\ pending = <<>>

\* ------------------------------------------------------------------------
\* Operations
\* ------------------------------------------------------------------------
\* Enlace.enviar(datagrama) on Enlace l: one call of linha_serial.enviar(quadro)
Enviar(l, datagrama) ==
    /\ line' = [line EXCEPT ![l] = Append(@, Quadro(datagrama))]
    /\ outcome' = "ok"

\* a variant that sends on every Enlace of the registry
CamadaEnviar_Broadcast(datagrama, next_hop) ==
    /\ sent' = Append(sent, [datagrama |-> datagrama, next_hop |-> next_hop])
    /\ line' = [l \in Enlaces |-> IF l \in Addrs THEN Append(line[l], Quadro(datagrama))
                                  ELSE line[l]]
    /\ outcome' = "ok"
    /\ UNCHANGED <<callback, registered, enlace_callback, buffer, calls, recvd, chunks>>

\* a variant that drops a datagram for an unknown next hop without an error
CamadaEnviar_SilentDrop(datagrama, next_hop) ==
    /\ sent' = Append(sent, [datagrama |-> datagrama, next_hop |-> next_hop])
    /\ IF next_hop \in Addrs
       THEN Enviar(next_hop, datagrama)
       ELSE UNCHANGED <<line, outcome>>
    /\ UNCHANGED <<callback, registered, enlace_callback, buffer, calls, recvd, chunks>>

\* CamadaEnlace.enviar(datagrama, next_hop): self.enlaces[next_hop] raises
\* KeyError when next_hop is not a key, before anything is sent
CamadaEnviar(datagrama, next_hop) ==
    /\ sent' = Append(sent, [datagrama |-> datagrama, next_hop |-> next_hop])
    /\ IF next_hop \in Addrs
       THEN Enviar(next_hop, datagrama)
       ELSE /\ outcome' = "KeyError"
            /\ UNCHANGED line
    /\ UNCHANGED <<callback, registered, enlace_callback, buffer, calls, recvd, chunks>>

\* a variant that keeps the first callback registered
RegistrarRecebedor_FirstWins(cb) ==
    /\ callback' = IF callback = None THEN cb ELSE callback
    /\ registered' = Append(registered, cb)
    /\ outcome' = "ok"
    /\ UNCHANGED <<enlace_callback, buffer, line, calls, sent, recvd, chunks>>

\* CamadaEnlace.registrar_recebedor(callback)
RegistrarRecebedor(cb) ==
    /\ callback' = cb
    /\ registered' = Append(registered, cb)
    /\ outcome' = "ok"
    /\ UNCHANGED <<enlace_callback, buffer, line, calls, sent, recvd, chunks>>

\* Enlace.registrar_recebedor(callback) on Enlace l
EnlaceRegistrarRecebedor(l, cb) ==
    /\ enlace_callback' = [enlace_callback EXCEPT ![l] = cb]
    /\ outcome' = "ok"
    /\ UNCHANGED <<callback, registered, buffer, line, calls, sent, recvd, chunks>>

\* a variant whose buffer is one attribute shared by all Enlace objects
RawRecv_SharedBuffer(l, chunk, fails) ==
    LET r == RawRecvResult(buffer[l], l, Target(l), chunk, fails) IN
    /\ buffer' = [m \in Enlaces |-> r.buffer]
    /\ calls' = calls \o r.calls
    /\ outcome' = IF r.exc THEN "raised" ELSE "returned"
    /\ recvd' = [recvd EXCEPT ![l] = @ \o chunk]
    /\ chunks' = [chunks EXCEPT ![l] = Append(@, Len(chunk))]
    /\ UNCHANGED <<callback, registered, enlace_callback, line, sent>>

\* Enlace.__raw_recv(dados) on Enlace l, run to completion; fails are the
\* runs of the callback (1st, 2nd, ... of this call) that raise an Exception
RawRecv(l, chunk, fails) ==
    LET r == RawRecvResult(buffer[l], l, Target(l), chunk, fails) IN
    /\ buffer' = [buffer EXCEPT ![l] = r.buffer]
    /\ calls' = calls \o r.calls
    /\ outcome' = IF r.exc THEN "raised" ELSE "returned"
    /\ recvd' = [recvd EXCEPT ![l] = @ \o chunk]
    /\ chunks' = [chunks EXCEPT ![l] = Append(@, Len(chunk))]
    /\ UNCHANGED <<callback, registered, enlace_callback, line, sent>>

\* ------------------------------------------------------------------------
\* Spec: a CamadaEnlace over two serial lines, used by an upper layer
\* (registrar_recebedor, enviar) and by its lines (__raw_recv), and a bare
\* Enlace whose owner may register a receiver and whose line calls __raw_recv
\* ------------------------------------------------------------------------
\* chunks a line hands to __raw_recv in Spec
RecvChunks == {<<192>>, <<65>>, <<65, 192>>, <<65, 192, 219, 220, 192, 66>>}

UpperRegisters ==
    /\ ops < MaxOps
    /\ \E cb \in UserCallbacks : RegistrarRecebedor(cb)
    /\ ops' = ops + 1
    /\ UNCHANGED <<tosend, pending, thvars>>

UpperSends ==
    /\ ops < MaxOps
    /\ \E d \in Samples, nh \in Addrs \cup {Unknown} : CamadaEnviar(d, nh)
    /\ ops' = ops + 1
    /\ UNCHANGED <<tosend, pending, thvars>>

PeerOwnerRegisters ==
    /\ ops < MaxOps
    /\ \E cb \in UserCallbacks : EnlaceRegistrarRecebedor(Peer, cb)
    /\ ops' = ops + 1
    /\ UNCHANGED <<tosend, pending, thvars>>

LineReceives ==
    /\ ops < MaxOps
    /\ \E l \in Enlaces, chunk \in RecvChunks :
         \E fails \in SUBSET (1..NumFrames(buffer[l], l, chunk)) :
            RawRecv(l, chunk, IF Target(l) \in UserCallbacks THEN fails ELSE {})
    /\ ops' = ops + 1
    /\ UNCHANGED <<tosend, pending, thvars>>

Next == UpperRegisters \/ UpperSends \/ PeerOwnerRegisters \/ LineReceives

Spec == Init /\ [][Next]_vars

\* ------------------------------------------------------------------------
\* SpecLoop: Enlace a1 sends the datagrams of tosend; the serial line
\* carries the frames to the Peer, whose receiver is registered, and hands
\* it everything sent so far in one chunk
\* ------------------------------------------------------------------------
Datagrams == SeqsUpTo(DataByte, MaxLen)

InitLoop ==
    /\ InitObjects
    /\ tosend \in {<<d>> : d \in Datagrams}
                  \cup UNION {[1..k -> Samples] : k \in 2..MaxFrames}
    /\ pending = <<>>

\* the Peer's owner calls Enlace.registrar_recebedor(cb1) before traffic
PeerRegisters ==
    /\ enlace_callback[Peer] = NoAttr
    /\ EnlaceRegistrarRecebedor(Peer, "cb1")
    /\ UNCHANGED <<tosend, pending, ops, thvars>>

LinkSends ==
    /\ enlace_callback[Peer] # NoAttr
    /\ tosend # <<>>
    /\ Enviar("a1", Head(tosend))
    /\ sent' = Append(sent, [datagrama |-> Head(tosend), next_hop |-> "a1"])
    /\ pending' = pending \o Quadro(Head(tosend))
    /\ tosend' = Tail(tosend)
    /\ UNCHANGED <<callback, registered, enlace_callback, buffer, calls, recvd, chunks, ops, thvars>>

LineDeliversAll ==
    /\ pending # <<>>
    /\ \E fails \in SUBSET (1..NumFrames(buffer[Peer], Peer, pending)) :
          RawRecv(Peer, pending, fails)
    /\ pending' = <<>>
    /\ UNCHANGED <<tosend, ops, thvars>>

NextLoop == PeerRegisters \/ LinkSends \/ LineDeliversAll

SpecLoop == InitLoop /\ [][NextLoop]_vars

\* ------------------------------------------------------------------------
\* SpecStream: a far end puts a byte stream on the line and the line hands
\* it to the Peer's __raw_recv in chunks of any size
\* ------------------------------------------------------------------------
\* every ESC of m is followed by the second byte of an escape sequence
WellEscaped(m) ==
    \A i \in 1..Len(m) : m[i] = ESC => (i < Len(m) /\ m[i + 1] \in {220, 221})

\* streams of encoded frames: delimited at both ends, delimiters in between
\* (a closing delimiter may also open the next frame), payloads escaped
FrameStreams ==
    {<<END>> \o m \o <<END>> :
        m \in {x \in SeqsUpTo(LineByte, MaxStream - 2) : WellEscaped(x)}}

\* short streams of any content
AnyStreams == SeqsUpTo(LineByte, MaxAny) \ {<<>>}

InitStream ==
    /\ InitObjects
    /\ tosend = <<>>
    /\ pending \in FrameStreams \cup AnyStreams

LineDelivers ==
    /\ enlace_callback[Peer] # NoAttr
    /\ \E n \in 1..Len(pending) :
          /\ RawRecv(Peer, SubSeq(pending, 1, n), {})
          /\ pending' = SubSeq(pending, n + 1, Len(pending))
    /\ UNCHANGED <<tosend, ops, thvars>>

NextStream == PeerRegisters \/ LineDelivers

SpecStream == InitStream /\ [][NextStream]_vars

\* ------------------------------------------------------------------------
\* SpecThreads: the line of the Peer notifies __raw_recv from two threads.
\* __raw_recv takes no lock: each thread runs its statements one read or
\* write of self.buffer at a time and the threads interleave freely
\* ------------------------------------------------------------------------
ThreadChunks == {<<65, 192>>, <<66, 192>>, <<67>>, <<192>>}

ThreadStep(t, from, to) ==
    /\ pc[t] = from
    /\ pc' = [pc EXCEPT ![t] = to]

\* the line calls __raw_recv(dados) on thread t
ThCall(t) ==
    /\ enlace_callback[Peer] # NoAttr
    /\ ThreadStep(t, "idle", "hasattr")
    /\ \E chunk \in ThreadChunks :
          /\ dados' = [dados EXCEPT ![t] = chunk]
          /\ recvd' = [recvd EXCEPT ![Peer] = @ \o chunk]
          /\ chunks' = [chunks EXCEPT ![Peer] = Append(@, Len(chunk))]
    /\ UNCHANGED <<callback, registered, enlace_callback, buffer, line, calls, outcome, sent,
                   tosend, pending, ops, tmp, quadro, resto>>

\* if not hasattr(self, "buffer")
ThHasattr(t) ==
    /\ pc[t] = "hasattr"
    /\ pc' = [pc EXCEPT ![t] = IF buffer[Peer] = NoBuffer THEN "create" ELSE "load"]
    /\ UNCHANGED <<callback, registered, enlace_callback, buffer, line, calls, outcome, sent, recvd,
                   chunks, tosend, pending, ops, dados, tmp, quadro, resto>>

\* self.buffer = b""
ThCreate(t) ==
    /\ ThreadStep(t, "create", "load")
    /\ buffer' = [buffer EXCEPT ![Peer] = <<>>]
    /\ UNCHANGED <<callback, registered, enlace_callback, line, calls, outcome, sent, recvd,
                   chunks, tosend, pending, ops, dados, tmp, quadro, resto>>

\* self.buffer += dados, the read of self.buffer
ThLoad(t) ==
    /\ ThreadStep(t, "load", "store")
    /\ tmp' = [tmp EXCEPT ![t] = buffer[Peer]]
    /\ UNCHANGED <<callback, registered, enlace_callback, buffer, line, calls, outcome, sent, recvd,
                   chunks, tosend, pending, ops, dados, quadro, resto>>

\* self.buffer += dados, the write of self.buffer
ThStore(t) ==
    /\ ThreadStep(t, "store", "while")
    /\ buffer' = [buffer EXCEPT ![Peer] = tmp[t] \o dados[t]]
    /\ UNCHANGED <<callback, registered, enlace_callback, line, calls, outcome, sent, recvd,
                   chunks, tosend, pending, ops, dados, tmp, quadro, resto>>

\* while END in self.buffer
ThWhile(t) ==
    /\ pc[t] = "while"
    /\ pc' = [pc EXCEPT ![t] = IF HasEnd(buffer[Peer]) THEN "partition" ELSE "done"]
    /\ outcome' = IF HasEnd(buffer[Peer]) THEN outcome ELSE "returned"
    /\ UNCHANGED <<callback, registered, enlace_callback, buffer, line, calls, sent, recvd,
                   chunks, tosend, pending, ops, dados, tmp, quadro, resto>>

\* self.buffer.partition(END), the read of self.buffer
ThPartition(t) ==
    /\ ThreadStep(t, "partition", "assign")
    /\ quadro' = [quadro EXCEPT ![t] = Partition(buffer[Peer]).quadro]
    /\ resto' = [resto EXCEPT ![t] = Partition(buffer[Peer]).resto]
    /\ UNCHANGED <<callback, registered, enlace_callback, buffer, line, calls, outcome, sent, recvd,
                   chunks, tosend, pending, ops, dados, tmp>>

\* quadro, _, self.buffer = ..., the write of self.buffer
ThAssign(t) ==
    /\ ThreadStep(t, "assign", "dispatch")
    /\ buffer' = [buffer EXCEPT ![Peer] = resto[t]]
    /\ UNCHANGED <<callback, registered, enlace_callback, line, calls, outcome, sent, recvd,
                   chunks, tosend, pending, ops, dados, tmp, quadro, resto>>

\* if not quadro: continue; else unescape and self.callback(quadro)
ThDispatch(t) ==
    /\ ThreadStep(t, "dispatch", "while")
    /\ calls' = IF quadro[t] = <<>> THEN calls
                ELSE Append(calls, [enlace |-> Peer, fn |-> Target(Peer),
                                    datagrama |-> Unescape(quadro[t]),
                                    raised |-> FALSE])
    /\ UNCHANGED <<callback, registered, enlace_callback, buffer, line, outcome, sent, recvd,
                   chunks, tosend, pending, ops, dados, tmp, quadro, resto>>

NextThreads ==
    \/ PeerRegisters
    \/ \E t \in Threads :
          \/ ThCall(t) \/ ThHasattr(t) \/ ThCreate(t) \/ ThLoad(t) \/ ThStore(t)
          \/ ThWhile(t) \/ ThPartition(t) \/ ThAssign(t) \/ ThDispatch(t)

SpecThreads == Init /\ [][NextThreads]_vars

\* ------------------------------------------------------------------------
\* SpecReentrant: one thread; the callback a run of __raw_recv on the Peer
\* invokes may call __raw_recv on the same Enlace before it returns.
\* Activation 1 is called by the line, activation t + 1 by the callback that
\* activation t is running; they share self.buffer and take the steps of
\* __raw_recv used in SpecThreads.
\* ------------------------------------------------------------------------
ReentrantChunks == {<<65, 192, 66, 192>>, <<67, 192>>, <<67>>, <<192>>}

\* __raw_recv(dados) is entered, from the line or from a running callback
ReCall(t) ==
    /\ ops < MaxOps
    /\ enlace_callback[Peer] # NoAttr
    /\ pc[t] \in {"idle", "done"}
    /\ IF t = 1 THEN TRUE ELSE pc[t - 1] = "incallback"
    /\ pc' = [pc EXCEPT ![t] = "hasattr"]
    /\ \E chunk \in ReentrantChunks :
          /\ dados' = [dados EXCEPT ![t] = chunk]
          /\ recvd' = [recvd EXCEPT ![Peer] = @ \o chunk]
          /\ chunks' = [chunks EXCEPT ![Peer] = Append(@, Len(chunk))]
    /\ ops' = ops + 1
    /\ UNCHANGED <<callback, registered, enlace_callback, buffer, line, calls, outcome, sent,
                   tosend, pending, tmp, quadro, resto>>

\* if not quadro: continue; else unescape and enter self.callback(quadro)
ReDispatch(t) ==
    /\ pc[t] = "dispatch"
    /\ pc' = [pc EXCEPT ![t] = IF quadro[t] = <<>> THEN "while" ELSE "incallback"]
    /\ calls' = IF quadro[t] = <<>> THEN calls
                ELSE Append(calls, [enlace |-> Peer, fn |-> Target(Peer),
                                    datagrama |-> Unescape(quadro[t]),
                                    raised |-> FALSE])
    /\ UNCHANGED <<callback, registered, enlace_callback, buffer, line, outcome, sent, recvd,
                   chunks, tosend, pending, ops, dados, tmp, quadro, resto>>

\* a variant that writes the rest of the partition to self.buffer after the
\* callback has returned
ReReturn_StoresAfter(t) ==
    /\ pc[t] = "incallback"
    /\ \A u \in Threads : u > t => pc[u] \in {"idle", "done"}
    /\ pc' = [pc EXCEPT ![t] = "while"]
    /\ buffer' = [buffer EXCEPT ![Peer] = resto[t]]
    /\ UNCHANGED <<callback, registered, enlace_callback, line, calls, outcome, sent, recvd,
                   chunks, tosend, pending, ops, dados, tmp, quadro, resto>>

\* self.callback(quadro) returns, or raises an Exception that is caught and
\* printed: either way the loop goes on
ReReturn(t) ==
    /\ pc[t] = "incallback"
    /\ \A u \in Threads : u > t => pc[u] \in {"idle", "done"}
    /\ pc' = [pc EXCEPT ![t] = "while"]
    /\ UNCHANGED <<callback, registered, enlace_callback, buffer, line, calls, outcome, sent,
                   recvd, chunks, tosend, pending, ops, dados, tmp, quadro, resto>>

NextReentrant ==
    \/ PeerRegisters
    \/ \E t \in Threads :
          \/ ReCall(t) \/ ThHasattr(t) \/ ThCreate(t) \/ ThLoad(t) \/ ThStore(t)
          \/ ThWhile(t) \/ ThPartition(t) \/ ThAssign(t) \/ ReDispatch(t) \/ ReReturn(t)

SpecReentrant == Init /\ [][NextReentrant]_vars

\* ------------------------------------------------------------------------
\* Reference definitions used by the properties
\* ------------------------------------------------------------------------
\* the escaped form of a datagram, byte by byte, left to right
RECURSIVE EscapedBytes(_)
EscapedBytes(d) ==
    IF d = <<>> THEN <<>>
    ELSE (IF Head(d) = ESC THEN <<219, 221>>
          ELSE IF Head(d) = END THEN <<219, 220>>
          ELSE <<Head(d)>>) \o EscapedBytes(Tail(d))

\* the frame of a datagram on the wire
WireFrame(d) == <<END>> \o EscapedBytes(d) \o <<END>>

\* the concatenation of the byte strings of a sequence
RECURSIVE Concat(_)
Concat(ss) == IF ss = <<>> THEN <<>> ELSE Head(ss) \o Concat(Tail(ss))

\* a byte stream read one byte at a time: the non-empty runs of bytes closed
\* by a delimiter (frames) and the bytes after the last delimiter (rest)
RECURSIVE ByteWise(_, _, _)
ByteWise(s, cur, out) ==
    IF s = <<>> THEN [frames |-> out, rest |-> cur]
    ELSE IF Head(s) = END
         THEN ByteWise(Tail(s), <<>>, IF cur = <<>> THEN out ELSE Append(out, cur))
         ELSE ByteWise(Tail(s), Append(cur, Head(s)), out)

\* the datagrams passed to the callback by runs i..j of calls
RECURSIVE DatagramsOf(_, _, _)
DatagramsOf(cs, i, j) ==
    IF i > j THEN <<>> ELSE <<cs[i].datagrama>> \o DatagramsOf(cs, i + 1, j)

AllDatagrams(cs) == DatagramsOf(cs, 1, Len(cs))

\* the datagrams of entries i..j of sent
RECURSIVE SentDatagrams(_, _)
SentDatagrams(i, j) ==
    IF i > j THEN <<>> ELSE <<sent[i].datagrama>> \o SentDatagrams(i + 1, j)

\* the wire frames of the datagrams of a send history addressed to a
RECURSIVE FramesTo(_, _)
FramesTo(h, a) ==
    IF h = <<>> THEN <<>>
    ELSE (IF Head(h).next_hop = a THEN <<WireFrame(Head(h).datagrama)>> ELSE <<>>)
         \o FramesTo(Tail(h), a)

\* the bytes of an Enlace's buffer, none when it has no buffer yet
BufferBytes(l) == IF buffer[l] = NoBuffer THEN <<>> ELSE buffer[l]

\* the chunk passed to __raw_recv of Enlace l by this step
ChunkOf(l) == SubSeq(recvd'[l], Len(recvd[l]) + 1, Len(recvd'[l]))

\* exactly one datagram was sent by a1 and its frame, exactly as handed to
\* the line, was passed to the fresh Peer in one call
OneFrameLooped ==
    /\ Len(sent) = 1
    /\ Len(line["a1"]) = 1
    /\ Len(chunks[Peer]) = 1
    /\ recvd[Peer] = line["a1"][1]

\* ------------------------------------------------------------------------
\* C1 (as stated): for every datagram d, the empty one included, passing the
\* bytes Enlace.enviar(d) handed to the line to __raw_recv of a fresh Enlace
\* runs the callback exactly once, with d.
\* ------------------------------------------------------------------------
C1_RoundTripEveryDatagram ==
    OneFrameLooped => AllDatagrams(calls) = <<sent[1].datagrama>>

\* C1 (amended): the round trip holds for every non-empty datagram d: the
\* callback runs exactly once, with d; for the empty datagram the callback
\* does not run at all.
C1_RoundTripNonEmpty ==
    OneFrameLooped =>
        /\ sent[1].datagrama # <<>> => AllDatagrams(calls) = <<sent[1].datagrama>>
        /\ sent[1].datagrama = <<>> => calls = <<>>

C1_Witness ==
    /\ OneFrameLooped
    /\ sent[1].datagrama = <<219, 220, 192>>
    /\ AllDatagrams(calls) = <<<<219, 220, 192>>>>

\* ------------------------------------------------------------------------
\* C3: when the frames of k >= 2 non-empty datagrams sent in a row are
\* handed, concatenated, to __raw_recv of an Enlace with an empty buffer in
\* one call, that call runs the callback exactly k times, with the k
\* datagrams in the order they were sent.
\* ------------------------------------------------------------------------
C3_Coalescing ==
    [][\A k \in 2..Len(sent) :
          (/\ recvd'[Peer] # recvd[Peer]
           /\ BufferBytes(Peer) = <<>>
           /\ \A i \in 1..k : sent[Len(sent) - k + i].datagrama # <<>>
           /\ ChunkOf(Peer) = Concat(SubSeq(line["a1"], Len(sent) - k + 1, Len(sent))))
          => /\ Len(calls') = Len(calls) + k
             /\ DatagramsOf(calls', Len(calls) + 1, Len(calls'))
                  = SentDatagrams(Len(sent) - k + 1, Len(sent))]_vars

C3_Witness ==
    /\ Len(sent) = 3
    /\ \A i \in 1..3 : sent[i].datagrama # <<>>
    /\ sent[1].datagrama # sent[2].datagrama
    /\ Len(chunks[Peer]) = 1
    /\ recvd[Peer] = Concat(line["a1"])
    /\ AllDatagrams(calls) = SentDatagrams(1, 3)

\* ------------------------------------------------------------------------
\* C7: every Enlace.enviar(d) makes exactly one call of the line's enviar,
\* with END, then each byte of d escaped left to right (ESC -> ESC 0xDD,
\* END -> ESC 0xDC, others unchanged), then END; so END occurs in the frame
\* only as first and last byte and every ESC is followed by 0xDC or 0xDD.
\* ------------------------------------------------------------------------
C7_WireFormat ==
    /\ Len(line["a1"]) = Len(sent)
    /\ \A i \in 1..Len(line["a1"]) :
          LET f == line["a1"][i] IN
          /\ f = <<END>> \o EscapedBytes(sent[i].datagrama) \o <<END>>
          /\ \A j \in 1..Len(f) : f[j] = END <=> j \in {1, Len(f)}
          /\ \A j \in 1..Len(f) : f[j] = ESC => (j < Len(f) /\ f[j + 1] \in {220, 221})

C7_Witness ==
    /\ Len(sent) = 1
    /\ sent[1].datagrama = <<192, 219>>
    /\ line["a1"] = <<<<192, 219, 220, 219, 221, 192>>>>

\* ------------------------------------------------------------------------
\* C9: however many runs of the callback raise an Exception, whether the
\* callback was registered on the Enlace or on the CamadaEnlace, no call of
\* __raw_recv lets an exception out: it returns normally to the line.
\* ------------------------------------------------------------------------
C9_RawRecvReturns ==
    outcome # "raised"

C9_Witness ==
    /\ outcome = "returned"
    /\ Len(calls) = 2
    /\ calls[1].enlace = "a1" /\ calls[1].raised
    /\ calls[2].enlace = "a1" /\ calls[2].raised
    /\ chunks["a1"] = <<6>>

\* ------------------------------------------------------------------------
\* C2: once a stream of encoded frames has been handed to one Enlace in
\* chunks, however it was cut, the callback has run with the same datagrams
\* in the same order as when the whole stream is handed over in one call;
\* the stream C0 41 42 C0 43 C0 (cut as C0 | 41 42 | C0 43 C0 or otherwise)
\* gives exactly two runs, 'AB' then 'C'.
\* ------------------------------------------------------------------------
IsFrameStream(s) ==
    /\ Len(s) >= 2
    /\ s[1] = END
    /\ s[Len(s)] = END
    /\ WellEscaped(SubSeq(s, 2, Len(s) - 1))

C2_FragmentationInvariance ==
    (pending = <<>> /\ chunks[Peer] # <<>> /\ IsFrameStream(recvd[Peer])) =>
        /\ calls = RawRecvResult(NoBuffer, Peer, "cb1", recvd[Peer], {}).calls
        /\ recvd[Peer] = <<192, 65, 66, 192, 67, 192>>
              => AllDatagrams(calls) = <<<<65, 66>>, <<67>>>>

C2_Witness ==
    /\ pending = <<>>
    /\ recvd[Peer] = <<192, 65, 66, 192, 67, 192>>
    /\ chunks[Peer] = <<1, 2, 3>>
    /\ AllDatagrams(calls) = <<<<65, 66>>, <<67>>>>

\* ------------------------------------------------------------------------
\* C4: a call of __raw_recv on an Enlace whose buffer is empty, with a chunk
\* made only of END bytes, runs no callback and leaves the buffer empty (so
\* the same holds for the next such chunk).
\* ------------------------------------------------------------------------
C4_OnlyDelimiters ==
    [][(/\ recvd'[Peer] # recvd[Peer]
        /\ BufferBytes(Peer) = <<>>
        /\ \A i \in 1..Len(ChunkOf(Peer)) : ChunkOf(Peer)[i] = END)
       => (calls' = calls /\ buffer'[Peer] = <<>>)]_vars

C4_Witness ==
    /\ recvd[Peer] = <<192, 192, 192, 192>>
    /\ chunks[Peer] = <<1, 2, 1>>
    /\ calls = <<>>
    /\ buffer[Peer] = <<>>

\* ------------------------------------------------------------------------
\* C5: over any sequence of CamadaEnlace.enviar calls, the line of each
\* address has been handed exactly the frames of the datagrams sent to that
\* address, one raw send per datagram, in the order of the calls; a send to
\* one address puts nothing on another line.
\* ------------------------------------------------------------------------
C5_Routing ==
    /\ \A a \in Addrs : line[a] = FramesTo(sent, a)
    /\ line[Peer] = <<>>

C5_Witness ==
    /\ Len(sent) = 3
    /\ sent[1].next_hop = "a2"
    /\ sent[2].next_hop = "a1"
    /\ sent[3].next_hop = "a2"
    /\ line["a1"] = <<<<192, 219, 220, 219, 221, 192>>>>
    /\ line["a2"] = <<<<192, 65, 192>>, <<192, 192>>>>

\* ------------------------------------------------------------------------
\* C6: CamadaEnlace.enviar with a next hop that is not in the registry ends
\* with an error raised to the caller, hands nothing to any line and leaves
\* the callback slots and every reassembly buffer as they were.
\* ------------------------------------------------------------------------
C6_UnknownNextHop ==
    [][(/\ Len(sent') = Len(sent) + 1
        /\ sent'[Len(sent')].next_hop \notin Addrs)
       => (/\ outcome' = "KeyError"
           /\ UNCHANGED <<line, callback, enlace_callback, buffer, calls>>)]_vars

C6_Witness ==
    /\ outcome = "KeyError"
    /\ Len(sent) = 1
    /\ sent[1].next_hop = Unknown
    /\ callback = "cb1"
    /\ buffer["a1"] = <<65>>
    /\ \A l \in Enlaces : line[l] = <<>>

\* ------------------------------------------------------------------------
\* C8: when a run of the callback raises an Exception during a call of
\* __raw_recv, that call still runs the callback once, in order, for every
\* complete non-empty frame in the buffer, and leaves in the buffer exactly
\* the bytes after the last delimiter.
\* ------------------------------------------------------------------------
C8_FailureDoesNotStopReassembly ==
    [][\A l \in Enlaces :
          (/\ recvd'[l] # recvd[l]
           /\ \E i \in (Len(calls) + 1)..Len(calls') : calls'[i].raised)
          => LET bw == ByteWise(BufferBytes(l) \o ChunkOf(l), <<>>, <<>>) IN
             /\ Len(calls') = Len(calls) + Len(bw.frames)
             /\ \A i \in 1..Len(bw.frames) :
                   /\ calls'[Len(calls) + i].datagrama = Unescape(bw.frames[i])
                   /\ calls'[Len(calls) + i].enlace = l
                   /\ calls'[Len(calls) + i].fn = Target(l)
             /\ buffer'[l] = bw.rest]_vars

C8_Witness ==
    /\ chunks["a1"] = <<6>>
    /\ Len(calls) = 2
    /\ calls[1].raised /\ calls[1].datagrama = <<65>>
    /\ ~calls[2].raised /\ calls[2].datagrama = <<192>>
    /\ buffer["a1"] = <<66>>

\* ------------------------------------------------------------------------
\* C10: when two calls of __raw_recv on the same Enlace run on two threads,
\* the buffer and the datagrams delivered are those of the two calls run
\* one after the other, in one order or the other.
\* ------------------------------------------------------------------------
Sequential(first, second) ==
    LET r1 == RawRecvResult(NoBuffer, Peer, "cb1", first, {})
        r2 == RawRecvResult(r1.buffer, Peer, "cb1", second, {})
    IN [buffer |-> r2.buffer, calls |-> r1.calls \o r2.calls]

C10_ThreadsSerializable ==
    (\A t \in Threads : pc[t] = "done") =>
        [buffer |-> buffer[Peer], calls |-> calls]
            \in {Sequential(dados[1], dados[2]), Sequential(dados[2], dados[1])}

\* ------------------------------------------------------------------------
\* Reference definitions for the steps of __raw_recv
\* ------------------------------------------------------------------------
\* this step is a call of __raw_recv on Enlace l
Receives(l) == recvd'[l] # recvd[l]

\* the frames completed by this step's chunk on Enlace l, and the rest
Completed(l) == ByteWise(BufferBytes(l) \o ChunkOf(l), <<>>, <<>>)

\* the datagrams of a sequence of frames
Unescaped(frames) == [i \in 1..Len(frames) |-> Unescape(frames[i])]

\* the datagrams passed to callbacks by this step
NewDatagrams == DatagramsOf(calls', Len(calls) + 1, Len(calls'))

\* ------------------------------------------------------------------------
\* C11: a frame completed on an Enlace of the CamadaEnlace while no upper
\* callback is registered is consumed from the buffer and runs no callback;
\* registering a callback delivers nothing, and a call of __raw_recv made
\* after it delivers only the frames closed by a delimiter of its own chunk.
\* ------------------------------------------------------------------------
C11_DropsNeverQueues ==
    [][/\ \A l \in Addrs :
             Receives(l) =>
                /\ ~HasEnd(BufferBytes(l))
                /\ buffer'[l] = Completed(l).rest
                /\ callback = None => calls' = calls
                /\ callback # None => NewDatagrams = Unescaped(Completed(l).frames)
       /\ registered' # registered => calls' = calls]_vars

C11_Witness ==
    /\ registered = <<"cb1">>
    /\ recvd["a1"] = <<65, 192, 65, 192>>
    /\ chunks["a1"] = <<2, 2>>
    /\ buffer["a1"] = <<>>
    /\ Len(calls) = 1
    /\ calls[1].fn = "cb1"

\* ------------------------------------------------------------------------
\* C12: the upper callback slot holds the callback registered last; every
\* datagram an Enlace of the CamadaEnlace produces is passed exactly once,
\* unchanged, to that callback and to no other; registering the callback
\* already in the slot changes nothing.
\* ------------------------------------------------------------------------
C12_LastWriteWins ==
    /\ [](callback = IF registered = <<>> THEN None ELSE registered[Len(registered)])
    /\ [][/\ \A l \in Addrs :
                (Receives(l) /\ registered # <<>>) =>
                   /\ Len(calls') = Len(calls) + Len(Completed(l).frames)
                   /\ \A i \in 1..Len(Completed(l).frames) :
                         /\ calls'[Len(calls) + i].fn = registered[Len(registered)]
                         /\ calls'[Len(calls) + i].datagrama
                               = Unescape(Completed(l).frames[i])
          /\ (registered' # registered /\ registered # <<>>
                /\ registered'[Len(registered')] = registered[Len(registered)])
             => UNCHANGED <<callback, enlace_callback, buffer, line, calls>>]_vars

C12_Witness ==
    /\ registered = <<"cb1", "cb2">>
    /\ Len(calls) = 1
    /\ calls[1].fn = "cb2"
    /\ calls[1].enlace = "a2"
    /\ calls[1].datagrama = <<65>>

\* ------------------------------------------------------------------------
\* C17: a call of __raw_recv on one Enlace changes no other Enlace's buffer
\* and runs callbacks only for the frames completed by its own buffer and
\* chunk; each buffer is, whatever the interleaving of the lines, the tail
\* of that Enlace's own byte stream.
\* ------------------------------------------------------------------------
C17_LinkIndependence ==
    /\ [](\A l \in Enlaces : BufferBytes(l) = ByteWise(recvd[l], <<>>, <<>>).rest)
    /\ [][\A l \in Enlaces :
             Receives(l) =>
                /\ \A m \in Enlaces \ {l} : buffer'[m] = buffer[m]
                /\ SubSeq(calls', 1, Len(calls)) = calls
                /\ \A i \in (Len(calls) + 1)..Len(calls') : calls'[i].enlace = l
                /\ NewDatagrams = IF Target(l) \in UserCallbacks
                                  THEN Unescaped(Completed(l).frames) ELSE <<>>]_vars

C17_Witness ==
    /\ recvd["a1"] = <<65>>
    /\ recvd["a2"] = <<65, 192>>
    /\ buffer["a1"] = <<65>>
    /\ buffer["a2"] = <<>>
    /\ Len(calls) = 1
    /\ calls[1].enlace = "a2"
    /\ calls[1].datagrama = <<65>>

\* ------------------------------------------------------------------------
\* C19: on an Enlace on which registrar_recebedor was never called, a call
\* of __raw_recv that completes frames returns normally, consumes them from
\* the buffer and runs no callback; a callback registered afterwards gets
\* only the frames closed by later chunks.
\* ------------------------------------------------------------------------
C19_NoReceiverRegistered ==
    [][/\ (Receives(Peer) /\ enlace_callback[Peer] = NoAttr) =>
             /\ outcome' = "returned"
             /\ calls' = calls
             /\ buffer'[Peer] = Completed(Peer).rest
             /\ ~HasEnd(buffer'[Peer])
       /\ enlace_callback'[Peer] # enlace_callback[Peer] => calls' = calls
       /\ (Receives(Peer) /\ enlace_callback[Peer] # NoAttr) =>
             /\ ~HasEnd(BufferBytes(Peer))
             /\ NewDatagrams = Unescaped(Completed(Peer).frames)]_vars

C19_Witness ==
    /\ enlace_callback[Peer] = "cb1"
    /\ recvd[Peer] = <<65, 192, 65, 192>>
    /\ chunks[Peer] = <<2, 2>>
    /\ outcome = "returned"
    /\ Len(calls) = 1
    /\ calls[1].fn = "cb1"

\* ------------------------------------------------------------------------
\* C13: Enlace.enviar(b"") ends without an error and hands the line exactly
\* the two bytes C0 C0; a call of __raw_recv with exactly those bytes on an
\* empty buffer runs no callback and leaves the buffer empty, and once all
\* frames sent are delivered the callback has run for the non-empty
\* datagrams only.
\* ------------------------------------------------------------------------
NonEmpty(d) == d # <<>>

C13_EmptyDatagram ==
    /\ [](/\ \A i \in 1..Len(sent) :
                sent[i].datagrama = <<>> => line["a1"][i] = <<192, 192>>
          /\ (pending = <<>> /\ tosend = <<>>) =>
                AllDatagrams(calls) = SelectSeq(SentDatagrams(1, Len(sent)), NonEmpty))
    /\ [][/\ (Len(sent') > Len(sent) /\ sent'[Len(sent')].datagrama = <<>>) =>
                /\ outcome' = "ok"
                /\ Len(line'["a1"]) = Len(line["a1"]) + 1
          /\ (Receives(Peer) /\ BufferBytes(Peer) = <<>>
                /\ ChunkOf(Peer) = <<192, 192>>) =>
                /\ calls' = calls
                /\ buffer'[Peer] = <<>>
                /\ outcome' = "returned"]_vars

C13_Witness ==
    /\ Len(sent) = 1
    /\ sent[1].datagrama = <<>>
    /\ line["a1"] = <<<<192, 192>>>>
    /\ recvd[Peer] = <<192, 192>>
    /\ chunks[Peer] = <<2>>
    /\ buffer[Peer] = <<>>
    /\ calls = <<>>
    /\ outcome = "returned"

\* ------------------------------------------------------------------------
\* C14: between calls of __raw_recv, whatever the chunks were, the buffer of
\* the Enlace holds no END byte.
\* ------------------------------------------------------------------------
C14_BufferHasNoEnd ==
    ~HasEnd(BufferBytes(Peer))

C14_Witness ==
    /\ recvd[Peer] = <<192, 65, 192, 66>>
    /\ chunks[Peer] = <<4>>
    /\ buffer[Peer] = <<66>>
    /\ Len(calls) = 1

\* ------------------------------------------------------------------------
\* C15: between calls of __raw_recv the buffer is exactly the bytes received
\* after the last END received (all bytes received when there was none), and
\* the callback has run once for each non-empty run of bytes closed by an
\* END so far, with the unescaping of all the bytes of that run, well formed
\* or not.
\* ------------------------------------------------------------------------
AfterLastEnd(s) ==
    IF ~HasEnd(s) THEN s
    ELSE LET k == CHOOSE i \in 1..Len(s) :
                     s[i] = END /\ \A j \in (i + 1)..Len(s) : s[j] # END
         IN SubSeq(s, k + 1, Len(s))

C15_NoLossOfUnterminated ==
    /\ BufferBytes(Peer) = AfterLastEnd(recvd[Peer])
    /\ AllDatagrams(calls) = Unescaped(ByteWise(recvd[Peer], <<>>, <<>>).frames)

C15_Witness ==
    /\ recvd[Peer] = <<219, 65, 192>>
    /\ chunks[Peer] = <<1, 1, 1>>
    /\ buffer[Peer] = <<>>
    /\ AllDatagrams(calls) = <<<<219, 65>>>>

\* ------------------------------------------------------------------------
\* C16 (as stated): for the payload of every frame Enlace.enviar hands to
\* the line, undoing ESC_END then ESC_ESC and undoing ESC_ESC then ESC_END
\* give the same bytes, and both give the datagram.
\* ------------------------------------------------------------------------
\* the two replacements in the order opposite to the one of __raw_recv
UnescapeReversed(q) ==
    Replace(Replace(q, ESC_ESC, <<ESC>>), ESC_END, <<END>>)

\* the bytes between the two delimiters of a frame
Payload(f) == SubSeq(f, 2, Len(f) - 1)

\* d holds an ESC byte immediately followed by the byte 0xDC
HasEscThenDC(d) ==
    \E i \in 1..(Len(d) - 1) : d[i] = ESC /\ d[i + 1] = 220

C16_UnescapeOrderIndependent ==
    \A i \in 1..Len(sent) :
        /\ Unescape(Payload(line["a1"][i])) = UnescapeReversed(Payload(line["a1"][i]))
        /\ Unescape(Payload(line["a1"][i])) = sent[i].datagrama

\* C16 (amended): undoing ESC_END then ESC_ESC, the order of __raw_recv,
\* gives the datagram for every payload the encoder produces; the reverse
\* order gives the datagram exactly when the datagram holds no ESC byte
\* immediately followed by 0xDC (for DB DC the payload is DB DD DC and the
\* reverse order gives C0).
C16_UnescapeOrderMatters ==
    \A i \in 1..Len(sent) :
        /\ Unescape(Payload(line["a1"][i])) = sent[i].datagrama
        /\ UnescapeReversed(Payload(line["a1"][i])) = sent[i].datagrama
              <=> ~HasEscThenDC(sent[i].datagrama)

C16_Witness ==
    /\ Len(sent) = 1
    /\ sent[1].datagrama = <<219, 220>>
    /\ line["a1"] = <<<<192, 219, 221, 220, 192>>>>
    /\ UnescapeReversed(<<219, 221, 220>>) = <<192>>
    /\ AllDatagrams(calls) = <<<<219, 220>>>>

\* ------------------------------------------------------------------------
\* C18: when callbacks invoked by __raw_recv call __raw_recv on the same
\* Enlace before returning, the callback runs begin in the order of the
\* non-empty frames of the byte stream (the chunks in the order they were
\* passed); once every activation has returned each such frame has been
\* delivered exactly once and the buffer holds the bytes after the last END.
\* ------------------------------------------------------------------------
C18_ReentrantKeepsOrder ==
    LET frames == Unescaped(ByteWise(recvd[Peer], <<>>, <<>>).frames) IN
    /\ Len(calls) <= Len(frames)
    /\ AllDatagrams(calls) = SubSeq(frames, 1, Len(calls))
    /\ (\A t \in Threads : pc[t] \in {"idle", "done"}) =>
          /\ AllDatagrams(calls) = frames
          /\ BufferBytes(Peer) = AfterLastEnd(recvd[Peer])

C18_Witness ==
    /\ pc[1] = "done"
    /\ pc[2] = "done"
    /\ recvd[Peer] = <<65, 192, 66, 192, 67, 192>>
    /\ chunks[Peer] = <<4, 2>>
    /\ quadro[1] = <<65>>
    /\ quadro[2] = <<67>>
    /\ AllDatagrams(calls) = <<<<65>>, <<66>>, <<67>>>>
    /\ buffer[Peer] = <<>>

=============================================================================
